---- MODULE Spec2Model ----
(***************************************************************************)
(* Face verification microservice (app/main.py, app/verification.py).      *)
(*                                                                         *)
(* POST /verify stages two base64 images as files of the shared temp       *)
(* directory, calls DeepFace.verify on the two paths, maps the outcome to  *)
(* an HTTP response and removes the staged files in a finally block.       *)
(*                                                                         *)
(* Conventions of the model                                                *)
(*  - a Python str is a sequence of characters; the characters kept are    *)
(*    one letter of the base64 alphabet ("A"), the pad "=", the comma, one *)
(*    ASCII character outside the alphabet ("!") and one non-ASCII         *)
(*    character ("NONASCII");                                              *)
(*  - an exception message and a details text are sequences of phrases;    *)
(*    Python's substring test is membership of a phrase;                   *)
(*  - a float is a fixed-point integer: a distance counts 1e-5, a          *)
(*    similarity before rounding counts 1e-3 percent, a reported           *)
(*    similarity counts 1e-2 percent, a reported distance counts 1e-4;     *)
(*  - uuid.uuid4() returns a value it never returned before.               *)
(***************************************************************************)
EXTENDS Integers, Sequences, FiniteSets, TLC

VARIABLES
    tf_available,        \* verification.TF_AVAILABLE
    deepface_available,  \* verification.DEEPFACE_AVAILABLE, as imported by main
    files,               \* TEMP_DIR: path -> [owner, complete]
    next_uuid,           \* the uuid4 values handed out so far
    pc,                  \* per request: position in handle_verification
    staging,             \* per request: the save_base64_temp call in progress
    temp_filepath,       \* per request: save_base64_temp's local temp_filepath
    id_image_path,       \* per request: handle_verification's id_image_path
    selfie_image_path,   \* per request: handle_verification's selfie_image_path
    response,            \* per request: the HTTP response (status 0: none yet)
    raised,              \* per request: what DeepFace.verify raised or returned
    malformed,           \* per request: which payloads were not base64 (history)
    created,             \* per request: the paths this request created (history)
    events,              \* per request: the handler's events in order (history)
    raw_result,          \* SpecBand: the dict DeepFace.verify returned
    band_result          \* SpecBand: what verify_identity made of it

vars == << tf_available, deepface_available, files, next_uuid, pc, staging,
           temp_filepath, id_image_path, selfie_image_path, response, raised,
           malformed, created, events, raw_result, band_result >>

----------------------------------------------------------------------------
(* Bounds *)

NumRequests == 2
MaxLen == 5
MaxUuids == 4

Requests == 1 .. NumRequests

----------------------------------------------------------------------------
(* Python values *)

None == << >>

Chars == { "A", "=", ",", "!", "NONASCII" }

RECURSIVE StringsUpTo(_)
StringsUpTo(n) ==
    IF n = 0 THEN { << >> }
    ELSE LET shorter == StringsUpTo(n - 1)
         IN  shorter \cup { Append(s, c) : s \in { t \in shorter : Len(t) = n - 1 }, c \in Chars }

Base64Strings == StringsUpTo(MaxLen)

----------------------------------------------------------------------------
(* save_base64_temp: the data-URI prefix, the padding, base64.b64decode *)

RECURSIVE IndexOf(_, _, _)
IndexOf(s, c, i) ==
    IF i > Len(s) THEN 0
    ELSE IF s[i] = c THEN i
    ELSE IndexOf(s, c, i + 1)

\* base64_string.split(",", 1): what follows the first comma, or the string
Encoded(base64_string) ==
    LET k == IndexOf(base64_string, ",", 1)
    IN  IF k = 0 THEN base64_string
        ELSE SubSeq(base64_string, k + 1, Len(base64_string))

\* '=' * (-len(encoded) % 4)
Padded(encoded) ==
    encoded \o [ i \in 1 .. ((4 - (Len(encoded) % 4)) % 4) |-> "=" ]

\* binascii.a2b_base64 without strict_mode: characters outside the alphabet
\* are skipped, a complete pad sequence ends the input, a quad left open is
\* an error
RECURSIVE A2bBase64(_, _, _, _, _)
A2bBase64(s, i, quad_pos, pads, nbytes) ==
    IF i > Len(s)
    THEN [ ok |-> quad_pos = 0, nbytes |-> nbytes ]
    ELSE IF s[i] = "="
    THEN IF quad_pos >= 2 /\ quad_pos + pads + 1 >= 4
         THEN [ ok |-> TRUE, nbytes |-> nbytes ]
         ELSE A2bBase64(s, i + 1, quad_pos,
                        IF quad_pos >= 2 THEN pads + 1 ELSE pads, nbytes)
    ELSE IF s[i] # "A"
    THEN A2bBase64(s, i + 1, quad_pos, pads, nbytes)
    ELSE A2bBase64(s, i + 1, (quad_pos + 1) % 4, 0,
                   IF quad_pos = 0 THEN nbytes ELSE nbytes + 1)

\* base64.b64decode(str): a non-ASCII str raises ValueError, else a2b_base64
B64Decode(encoded) ==
    IF \E i \in 1 .. Len(encoded) : encoded[i] = "NONASCII"
    THEN [ ok |-> FALSE, nbytes |-> 0 ]
    ELSE A2bBase64(encoded, 1, 0, 0, 0)

\* lines 75-85 and the two except clauses: does image_data exist
Decodes(base64_string) == B64Decode(Padded(Encoded(base64_string))).ok

Prefix(which) == IF which = "id" THEN "id-" ELSE "selfie-"

\* the file name without its uuid
FixedFilename(prefix, uuid) == << prefix, 0 >>

\* f"{prefix}{uuid.uuid4()}.jpg" under TEMP_DIR
TempFilename(prefix, uuid) == << prefix, uuid >>

\* cleanup_file: os.remove when the path is set and exists (os.remove of an
\* existing file of TEMP_DIR is taken to succeed)
CleanupFile(fs, filepath) ==
    IF filepath # None /\ filepath \in DOMAIN fs
    THEN [ p \in DOMAIN fs \ { filepath } |-> fs[p] ]
    ELSE fs

----------------------------------------------------------------------------
(* Texts: exception messages and details *)

\* str.lower() of one phrase
Lower(phrase) ==
    CASE phrase = "Face could not be detected" -> "face could not be detected"
      [] phrase = "CUDA" -> "cuda"
      [] phrase = "GPU" -> "gpu"
      [] OTHER -> phrase

LowerText(text) == [ i \in 1 .. Len(text) |-> Lower(text[i]) ]

\* needle in text
Contains(text, needle) == \E i \in 1 .. Len(text) : text[i] = needle

\* str(e) of the exceptions DeepFace.verify raises
ExceptionMessages ==
    { << "Face could not be detected" >>,
      << "more than one face" >>,
      << "CUDA", "driver version is insufficient" >>,
      << "Unable to open", "/root/.deepface/weights/vgg_face_weights.h5" >> }

DeviceDetails ==
    << "Internal error related to device configuration. Please check service logs." >>

----------------------------------------------------------------------------
(* verify_identity *)

One == 100000
HighSimilarity == 70
MediumSimilarity == 55

\* round(x, ndigits) of x counted in units, to units ten times as large
\* (halfway cases to even)
Round(x) ==
    LET q == x \div 10
        r == x % 10
    IN  IF r > 5 \/ (r = 5 /\ q % 2 = 1) THEN q + 1 ELSE q

\* dict.get(key, default)
Get(dict, key, default) == IF key \in DOMAIN dict THEN dict[key] ELSE default

\* lines 105-113: similarity in 1e-3 percent
Similarity(result) == ((One - Get(result, "distance", One)) * 100) \div (One \div 1000)

Confidence(similarity) ==
    IF similarity >= HighSimilarity * 1000 THEN "high"
    ELSE IF similarity >= MediumSimilarity * 1000 THEN "medium"
    ELSE "low"

\* lines 105-125: the success dict
SuccessResult(result) ==
    LET similarity == Similarity(result)
        is_match == Get(result, "verified", FALSE)
    IN  [ success |-> TRUE,
          match |-> is_match,
          similarity |-> Round(similarity),
          distance |-> Round(Get(result, "distance", One)),
          threshold |-> Round(Get(result, "threshold", 0)),
          confidence |-> Confidence(similarity),
          model |-> Get(result, "model", "N/A"),
          detector_backend |-> Get(result, "detector_backend", "N/A"),
          message |-> IF is_match THEN "Face verification successful."
                      ELSE "Faces do not appear to match." ]

\* lines 127-136
ValueErrorResult(msg) ==
    LET err_str == LowerText(msg)
        details == IF Contains(err_str, "face could not be detected")
                   THEN << "Could not detect a face in one or both images. Please ensure the face is clear and unobstructed." >>
                   ELSE IF Contains(err_str, "more than one face")
                   THEN << "Multiple faces detected in one or both images. Please ensure only one face is present." >>
                   ELSE << "Face detection failed." >>
    IN  [ success |-> FALSE, error |-> "ValueError during verification",
          details |-> details, match |-> FALSE ]

\* lines 137-139
FileNotFoundResult(msg) ==
    [ success |-> FALSE, error |-> "FileNotFoundError",
      details |-> << "Image file not found: " >> \o msg, match |-> FALSE ]

\* lines 143-146: the details of an unclassified exception
ErrorDetail(msg) ==
    IF Contains(LowerText(msg), "cuda") \/ Contains(LowerText(msg), "gpu")
    THEN DeviceDetails
    ELSE msg

\* lines 140-147
UnexpectedResult(msg) ==
    [ success |-> FALSE, error |-> "An unexpected error occurred during verification.",
      details |-> ErrorDetail(msg), match |-> FALSE ]

\* lines 69-74: the guards on entry
UnavailableResult ==
    IF ~tf_available
    THEN [ success |-> FALSE, error |-> "TensorFlow library failed to import",
           details |-> << "Ensure TensorFlow (tensorflow-cpu) is installed correctly." >> ]
    ELSE [ success |-> FALSE, error |-> "DeepFace library failed to import",
           details |-> << "Ensure DeepFace is installed correctly." >> ]

\* verify_identity's return value for an outcome of DeepFace.verify
VerifyIdentity(outcome) ==
    CASE outcome.kind = "return" -> SuccessResult(outcome.result)
      [] outcome.kind = "ValueError" -> ValueErrorResult(outcome.msg)
      [] outcome.kind = "FileNotFoundError" -> FileNotFoundResult(outcome.msg)
      [] OTHER -> UnexpectedResult(outcome.msg)

----------------------------------------------------------------------------
(* handle_verification: responses *)

\* the status with "FileNotFoundError" left out of the list of line 154
StatusCodeShortList(result) ==
    IF result.success THEN 200
    ELSE IF "error" \in DOMAIN result
            /\ result.error \notin { "ValueError during verification" }
    THEN 500
    ELSE 400

\* lines 151-155
StatusCode(result) ==
    IF result.success THEN 200
    ELSE IF "error" \in DOMAIN result
            /\ result.error \notin { "ValueError during verification", "FileNotFoundError" }
    THEN 500
    ELSE 400

\* JSONResponse(content=result, status_code=status_code)
JSONResponse(content, status_code) == [ status |-> status_code, body |-> content ]

\* raise HTTPException(status_code, detail): FastAPI answers {"detail": detail}
HTTPException(status_code, detail) ==
    [ status |-> status_code, body |-> [ detail |-> detail ] ]

\* the test of line 125 inverted
ServiceAvailable == deepface_available

\* line 125
ServiceUnavailable == ~deepface_available

\* lines 127-130
Unavailable503 ==
    HTTPException(503, [ success |-> FALSE, match |-> FALSE, error |-> "Service Unavailable",
                         details |-> << "Face verification component is not available." >> ])

\* lines 142-145
InvalidImage400 ==
    HTTPException(400, [ success |-> FALSE, match |-> FALSE, error |-> "Invalid Image Data",
                         details |-> << "Could not decode or save one or both base64 image strings." >> ])

\* lines 162-167
Internal500 ==
    HTTPException(500, [ success |-> FALSE, match |-> FALSE, error |-> "Internal Server Error",
                         details |-> << "An unexpected error occurred during processing." >> ])

\* lines 111-117: a body that is no VerificationRequest never reaches the
\* handler; FastAPI answers 422 with the list of validation errors
Validation422 ==
    [ status |-> 422, body |-> [ detail |-> << [ type |-> "missing", msg |-> "Field required" ] >> ] ]

NoResponse == [ status |-> 0, body |-> << >> ]

\* line 137 with `and` for `or`
BothStagingsFailed(id_path, selfie_path) == id_path = None /\ selfie_path = None

\* line 137
StagingFailed(id_path, selfie_path) == id_path = None \/ selfie_path = None

----------------------------------------------------------------------------
(* The dicts DeepFace.verify returns *)

DeepFaceResult(verified, distance) ==
    [ verified |-> verified, distance |-> distance, threshold |-> 68000,
      model |-> "VGG-Face", detector_backend |-> "ssd" ]

\* a dict without the keys verify_identity reads with a default
BareResult == [ model |-> "VGG-Face" ]

\* cosine distance lies in [0, 2]
MaxCosineDistance == 2 * One

\* the results a request of Spec may see
SampleResults ==
    { DeepFaceResult(TRUE, 25000), DeepFaceResult(FALSE, 80000), BareResult }

\* the results SpecBand ranges over: every distance on a grid of 2e-5, on
\* which no similarity lies halfway between two roundings, so that the
\* fixed-point arithmetic is the float arithmetic of the code
AllResults ==
    { DeepFaceResult(v, 2 * k) : v \in BOOLEAN, k \in 0 .. (MaxCosineDistance \div 2) }
       \cup { BareResult }

----------------------------------------------------------------------------
(* What a payload is, for the history variable malformed: base64 is letters *)
(* of the alphabet, then pads, the letters never 1 mod 4 and no more pads   *)
(* than fill the last quad (a payload short of pads counts as base64: the   *)
(* handler is to add them)                                                  *)

RECURSIVE CountOf(_, _)
CountOf(s, c) ==
    IF s = << >> THEN 0
    ELSE (IF Head(s) = c THEN 1 ELSE 0) + CountOf(Tail(s), c)

IsBase64(encoded) ==
    LET letters == CountOf(encoded, "A")
        pads == CountOf(encoded, "=")
    IN  /\ letters + pads = Len(encoded)
        /\ \A i \in 1 .. Len(encoded) : i <= letters => encoded[i] = "A"
        /\ letters % 4 # 1
        /\ pads <= (4 - (letters % 4)) % 4

----------------------------------------------------------------------------
(* What the surroundings of a request may do: the strings it carries (as   *)
(* what save_base64_temp lines 75-85 make of them: is the payload base64,  *)
(* does b64decode return), whether open and write succeed, what            *)
(* DeepFace.verify returns or raises, whether the handler raises after it  *)

DecodeCases(strings) ==
    { << IsBase64(Encoded(base64_string)), Decodes(base64_string) >> :
         base64_string \in strings }

\* one worker, every input
FullEnv ==
    [ cases |-> DecodeCases(Base64Strings),
      opens |-> BOOLEAN, writes |-> BOOLEAN,
      results |-> SampleResults,
      kinds |-> { "ValueError", "FileNotFoundError", "Exception" },
      messages |-> ExceptionMessages,
      raises |-> BOOLEAN ]

\* several workers: one string that decodes and one that does not, a write
\* that may fail, one result and one exception
SharedEnv ==
    [ cases |-> DecodeCases({ << "A", "A", "A", "A" >>, << "A" >> }),
      opens |-> { TRUE }, writes |-> BOOLEAN,
      results |-> { DeepFaceResult(TRUE, 25000) },
      kinds |-> { "ValueError" },
      messages |-> { << "Face could not be detected" >> },
      raises |-> { FALSE } ]

----------------------------------------------------------------------------
(* State *)

PerRequest(v) == [ r \in Requests |-> v ]

NoOutcome == [ kind |-> "none", msg |-> << >> ]
NotMalformed == [ id |-> FALSE, selfie |-> FALSE ]

HandlerInit ==
    /\ files = << >>
    /\ next_uuid = 1
    /\ pc = PerRequest("idle")
    /\ staging = PerRequest("id")
    /\ temp_filepath = PerRequest(None)
    /\ id_image_path = PerRequest(None)
    /\ selfie_image_path = PerRequest(None)
    /\ response = PerRequest(NoResponse)
    /\ raised = PerRequest(NoOutcome)
    /\ malformed = PerRequest(NotMalformed)
    /\ created = PerRequest({})
    /\ events = PerRequest(<< >>)

\* verification.py lines 13-53: DeepFace is imported only after TensorFlow
Init ==
    /\ tf_available \in BOOLEAN
    /\ deepface_available \in (IF tf_available THEN BOOLEAN ELSE { FALSE })
    /\ HandlerInit
    /\ raw_result = None
    /\ band_result = None

Startup == << tf_available, deepface_available >>
Band == << raw_result, band_result >>
Paths == << id_image_path, selfie_image_path >>

----------------------------------------------------------------------------
(* POST /verify *)

\* the request arrives; FastAPI validates the body against VerificationRequest
Receive(r) ==
    /\ pc[r] = "idle"
    /\ \E valid \in BOOLEAN :
          IF valid
          THEN /\ pc' = [ pc EXCEPT ![r] = "handler" ]
               /\ UNCHANGED << response, events >>
          ELSE /\ response' = [ response EXCEPT ![r] = Validation422 ]
               /\ pc' = [ pc EXCEPT ![r] = "done" ]
               /\ events' = [ events EXCEPT ![r] = << "respond" >> ]
    /\ UNCHANGED << Startup, Band, Paths, files, next_uuid, staging, temp_filepath,
                    raised, malformed, created >>

\* lines 121-130
CheckAvailable(r) ==
    /\ pc[r] = "handler"
    /\ IF ServiceUnavailable
       THEN /\ response' = [ response EXCEPT ![r] = Unavailable503 ]
            /\ pc' = [ pc EXCEPT ![r] = "done" ]
            /\ events' = [ events EXCEPT ![r] = << "respond" >> ]
       ELSE /\ pc' = [ pc EXCEPT ![r] = "decode" ]
            /\ UNCHANGED << response, events >>
    /\ UNCHANGED << Startup, Band, Paths, files, next_uuid, staging, temp_filepath,
                    raised, malformed, created >>

\* save_base64_temp returns `path` (None on any exception) to lines 134-135
Return(r, path) ==
    /\ temp_filepath' = [ temp_filepath EXCEPT ![r] = None ]
    /\ events' = [ events EXCEPT ![r] =
                     Append(@, IF path = None THEN "none" ELSE "staged") ]
    /\ IF staging[r] = "id"
       THEN /\ id_image_path' = [ id_image_path EXCEPT ![r] = path ]
            /\ staging' = [ staging EXCEPT ![r] = "selfie" ]
            /\ pc' = [ pc EXCEPT ![r] = "decode" ]
            /\ UNCHANGED selfie_image_path
       ELSE /\ selfie_image_path' = [ selfie_image_path EXCEPT ![r] = path ]
            /\ pc' = [ pc EXCEPT ![r] = "check" ]
            /\ UNCHANGED << id_image_path, staging >>

\* save_base64_temp lines 75-85, 94-99
SaveDecode(r, env) ==
    /\ pc[r] = "decode"
    /\ \E case \in env.cases :
          /\ malformed' = [ malformed EXCEPT ![r][staging[r]] = ~case[1] ]
          /\ IF case[2]
             THEN /\ pc' = [ pc EXCEPT ![r] = "open" ]
                  /\ UNCHANGED << Paths, staging, temp_filepath, events >>
             ELSE Return(r, None)
    /\ UNCHANGED << Startup, Band, files, next_uuid, response, raised, created >>

\* save_base64_temp lines 87-90: uuid4, open(temp_filepath, "wb")
SaveOpen(r, env) ==
    /\ pc[r] = "open"
    /\ next_uuid <= MaxUuids
    /\ next_uuid' = next_uuid + 1
    /\ \E opened \in env.opens :
          LET path == TempFilename(Prefix(staging[r]), next_uuid)
          IN  IF opened
              THEN /\ files' = (path :> [ owner |-> r, complete |-> FALSE ]) @@ files
                   /\ created' = [ created EXCEPT ![r] = @ \cup { path } ]
                   /\ temp_filepath' = [ temp_filepath EXCEPT ![r] = path ]
                   /\ pc' = [ pc EXCEPT ![r] = "write" ]
                   /\ UNCHANGED << Paths, staging, events >>
              ELSE /\ Return(r, None)
                   /\ UNCHANGED << files, created >>
    /\ UNCHANGED << Startup, Band, response, raised, malformed >>

\* save_base64_temp lines 91-93, 97-99: f.write(image_data)
SaveWrite(r, env) ==
    /\ pc[r] = "write"
    /\ \E written \in env.writes :
          IF written
          THEN /\ files' = [ files EXCEPT ![temp_filepath[r]].complete = TRUE ]
               /\ Return(r, temp_filepath[r])
          ELSE /\ Return(r, None)
               /\ UNCHANGED files
    /\ UNCHANGED << Startup, Band, next_uuid, response, raised, malformed, created >>

\* cleanup_file(id_image_path); cleanup_file(selfie_image_path)
Cleanup(r) ==
    files' = CleanupFile(CleanupFile(files, id_image_path[r]), selfie_image_path[r])

\* lines 137-147
CheckStaged(r) ==
    /\ pc[r] = "check"
    /\ IF StagingFailed(id_image_path[r], selfie_image_path[r])
       THEN /\ Cleanup(r)
            /\ events' = [ events EXCEPT ![r] = Append(@, "cleanup") ]
            /\ response' = [ response EXCEPT ![r] = InvalidImage400 ]
            /\ pc' = [ pc EXCEPT ![r] = "finally" ]
       ELSE /\ pc' = [ pc EXCEPT ![r] = "verify" ]
            /\ UNCHANGED << files, events, response >>
    /\ UNCHANGED << Startup, Band, Paths, next_uuid, staging, temp_filepath, raised,
                    malformed, created >>

\* lines 151-167: the response to verify_identity's result, or to an
\* exception raised in the handler after it (raises = TRUE)
Respond(result, raises) ==
    IF raises THEN Internal500 ELSE JSONResponse(result, StatusCode(result))

\* line 148, verification.py lines 68-101: verify_identity is entered
VerifyCall(r) ==
    /\ pc[r] = "verify"
    /\ IF ~tf_available \/ ~deepface_available
       THEN /\ response' = [ response EXCEPT ![r] = Respond(UnavailableResult, FALSE) ]
            /\ pc' = [ pc EXCEPT ![r] = "finally" ]
            /\ UNCHANGED events
       ELSE /\ events' = [ events EXCEPT ![r] = Append(@, "compare") ]
            /\ pc' = [ pc EXCEPT ![r] = "comparing" ]
            /\ UNCHANGED response
    /\ UNCHANGED << Startup, Band, Paths, files, next_uuid, staging, temp_filepath,
                    raised, malformed, created >>

\* verification.py lines 102-147, main.py lines 149-167
VerifyDone(r, env, outcome) ==
    /\ raised' = [ raised EXCEPT ![r] = [ kind |-> outcome.kind, msg |-> outcome.msg ] ]
    /\ \E raises \in env.raises :
          response' = [ response EXCEPT ![r] = Respond(VerifyIdentity(outcome), raises) ]
    /\ pc' = [ pc EXCEPT ![r] = "finally" ]
    /\ UNCHANGED << Startup, Band, Paths, files, next_uuid, staging, temp_filepath,
                    malformed, created, events >>

\* DeepFace.verify returns a dict
VerifyReturn(r, env) ==
    /\ pc[r] = "comparing"
    /\ \E result \in env.results :
          VerifyDone(r, env, [ kind |-> "return", msg |-> << >>, result |-> result ])

\* DeepFace.verify raises
VerifyRaise(r, env) ==
    /\ pc[r] = "comparing"
    /\ \E kind \in env.kinds, msg \in env.messages :
          VerifyDone(r, env, [ kind |-> kind, msg |-> msg ])

\* lines 169-173, then the response leaves
Finally(r) ==
    /\ pc[r] = "finally"
    /\ Cleanup(r)
    /\ events' = [ events EXCEPT ![r] = @ \o << "cleanup", "respond" >> ]
    /\ pc' = [ pc EXCEPT ![r] = "done" ]
    /\ UNCHANGED << Startup, Band, Paths, next_uuid, staging, temp_filepath, response,
                    raised, malformed, created >>

\* the connection closes and the worker takes its next request
Close(r) ==
    /\ pc[r] = "done"
    /\ pc' = [ pc EXCEPT ![r] = "idle" ]
    /\ staging' = [ staging EXCEPT ![r] = "id" ]
    /\ id_image_path' = [ id_image_path EXCEPT ![r] = None ]
    /\ selfie_image_path' = [ selfie_image_path EXCEPT ![r] = None ]
    /\ response' = [ response EXCEPT ![r] = NoResponse ]
    /\ raised' = [ raised EXCEPT ![r] = NoOutcome ]
    /\ malformed' = [ malformed EXCEPT ![r] = NotMalformed ]
    /\ created' = [ created EXCEPT ![r] = {} ]
    /\ events' = [ events EXCEPT ![r] = << >> ]
    /\ UNCHANGED << Startup, Band, files, next_uuid, temp_filepath >>

Handle(r, env) ==
    \/ Receive(r)
    \/ CheckAvailable(r)
    \/ SaveDecode(r, env)
    \/ SaveOpen(r, env)
    \/ SaveWrite(r, env)
    \/ CheckStaged(r)
    \/ VerifyCall(r)
    \/ VerifyReturn(r, env)
    \/ VerifyRaise(r, env)
    \/ Finally(r)

\* one worker: an async handler that never awaits runs to its end, request
\* after request
Next == Handle(1, FullEnv) \/ Close(1)

Spec == Init /\ [][Next]_vars

----------------------------------------------------------------------------
(* Several workers on one temp directory, one request each *)

InitShared ==
    /\ tf_available = TRUE
    /\ deepface_available = TRUE
    /\ HandlerInit
    /\ raw_result = None
    /\ band_result = None

NextShared == \E r \in Requests : Handle(r, SharedEnv)

SpecShared == InitShared /\ [][NextShared]_vars

----------------------------------------------------------------------------
(* verify_identity's success path alone, over every distance *)

InitBand ==
    /\ tf_available = TRUE
    /\ deepface_available = TRUE
    /\ HandlerInit
    /\ raw_result \in AllResults
    /\ band_result = None

\* verification.py lines 102-125
ProcessResult ==
    /\ band_result = None
    /\ band_result' = SuccessResult(raw_result)
    /\ UNCHANGED << Startup, Paths, files, next_uuid, pc, staging, temp_filepath,
                    response, raised, malformed, created, events, raw_result >>

NextBand == ProcessResult

SpecBand == InitBand /\ [][NextBand]_vars

----------------------------------------------------------------------------
(* Properties *)

Done(r) == pc[r] = "done"

\* the body's error dict, wherever the response carries it
Failure(r) ==
    IF "detail" \in DOMAIN response[r].body
    THEN response[r].body.detail
    ELSE response[r].body

\* text holds part as a run of consecutive phrases
ContainsText(text, part) ==
    \E i \in 1 .. Len(text) : SubSeq(text, i, i + Len(part) - 1) = part

Staged(path, r) ==
    /\ path \in DOMAIN files
    /\ files[path].owner = r
    /\ files[path].complete

\* C1: when a /verify request has completed, no file that the request
\* created is left in the temp directory
C1_NoFileLeft ==
    \A r \in Requests : Done(r) => created[r] \cap DOMAIN files = {}

\* C2: with the comparator available, a request whose idImage or selfieImage
\* payload is not base64 never reaches the comparator and is answered 400
\* "Invalid Image Data"
C2_MalformedRejected ==
    \A r \in Requests :
       (deepface_available /\ (malformed[r].id \/ malformed[r].selfie)) =>
          /\ pc[r] # "comparing"
          /\ raised[r] = NoOutcome
          /\ Done(r) => /\ response[r].status = 400
                        /\ Failure(r).error = "Invalid Image Data"

\* C3, as stated: with the comparator unavailable every completed /verify
\* call has status 503, whatever the request holds
C3_Always503 ==
    \A r \in Requests : (~deepface_available /\ Done(r)) => response[r].status = 503

\* C3, amended: with the comparator unavailable no request gets past the
\* availability test, and a completed call has status 503 unless its body
\* failed validation, which is answered 422
C3_ValidBody503 ==
    ~deepface_available =>
       \A r \in Requests :
          /\ pc[r] \in { "idle", "handler", "done" }
          /\ Done(r) => (response[r] = Unavailable503 \/ response[r] = Validation422)

C3_Witness ==
    \E r \in Requests : ~deepface_available /\ Done(r) /\ response[r].status = 503

\* C4: once the comparator was called, the status is decided by its
\* outcome: 200 for a returned result, 400 for a ValueError, 400 with error
\* "FileNotFoundError" for a FileNotFoundError, 500 for any other exception
\* and for an exception raised in the handler
C4_StatusByOutcome ==
    \A r \in Requests :
       (pc[r] \in { "finally", "done" } /\ raised[r].kind # "none") =>
          \/ response[r] = Internal500
          \/ /\ "detail" \notin DOMAIN response[r].body
             /\ CASE raised[r].kind = "return" -> response[r].status = 200
                  [] raised[r].kind = "ValueError" -> response[r].status = 400
                  [] raised[r].kind = "FileNotFoundError" ->
                        /\ response[r].status = 400
                        /\ response[r].body.error = "FileNotFoundError"
                  [] OTHER -> response[r].status = 500

C4_Witness ==
    \E r \in Requests :
       /\ Done(r)
       /\ raised[r].kind = "FileNotFoundError"
       /\ response[r].status = 400

\* C5: every 503, 400 and 500 response carries success = false,
\* match = false, error and details at the top level of its body
C5_FailureShape ==
    \A r \in Requests :
       (Done(r) /\ response[r].status \in { 503, 400, 500 }) =>
          /\ { "success", "match", "error", "details" } \subseteq DOMAIN response[r].body
          /\ response[r].body.success = FALSE
          /\ response[r].body.match = FALSE

\* C6: in a success result the confidence is high when the reported
\* similarity is at least 70, medium when it is at least 55, low otherwise
C6_BandOfReported ==
    DOMAIN band_result # {} =>
       band_result.confidence =
          IF band_result.similarity >= HighSimilarity * 100 THEN "high"
          ELSE IF band_result.similarity >= MediumSimilarity * 100 THEN "medium"
          ELSE "low"

\* C7: the similarity of a success result lies in [0, 100]
C7_SimilarityInRange ==
    DOMAIN band_result # {} =>
       (0 <= band_result.similarity /\ band_result.similarity <= 100 * 100)

\* C8: the details of a 500 response to an unclassified comparator exception
\* never hold the exception's message
C8_GenericDetails ==
    \A r \in Requests :
       (Done(r) /\ raised[r].kind = "Exception" /\ response[r].status = 500) =>
          ~ContainsText(Failure(r).details, raised[r].msg)

\* C9: the files of different requests have different paths, the two files
\* of one request differ, and until a request cleans up, each file it staged
\* is in the temp directory as this request wrote it
C9_OwnFilesOnly ==
    /\ \A r, q \in Requests : r # q => created[r] \cap created[q] = {}
    /\ \A r \in Requests :
          /\ (id_image_path[r] # None /\ selfie_image_path[r] # None)
                => id_image_path[r] # selfie_image_path[r]
          /\ pc[r] = "write" => /\ temp_filepath[r] \in DOMAIN files
                                /\ files[temp_filepath[r]].owner = r
          /\ pc[r] \in { "decode", "open", "write", "check", "verify", "comparing" }
                => \A path \in { id_image_path[r], selfie_image_path[r] } \ { None } :
                      Staged(path, r)

C9_Witness ==
    \E r, q \in Requests :
       /\ r # q
       /\ pc[r] = "comparing"
       /\ pc[q] = "done"
       /\ id_image_path[q] # None
       /\ selfie_image_path[q] # None

\* C10: the comparator is called at most once per request, as the third
\* event after two successful stagings and before any cleanup; both files
\* are there while it runs; the response follows the cleanup
C10_OneCallBetweenStagingAndCleanup ==
    \A r \in Requests :
       LET e == events[r]
       IN  /\ Cardinality({ i \in 1 .. Len(e) : e[i] = "compare" }) <= 1
           /\ \A i \in 1 .. Len(e) :
                 /\ e[i] = "compare" => (i = 3 /\ e[1] = "staged" /\ e[2] = "staged")
                 /\ e[i] = "cleanup" => \A j \in i .. Len(e) : e[j] # "compare"
                 /\ e[i] = "respond" => (i = Len(e) /\ (i > 1 => e[i - 1] = "cleanup"))
           /\ pc[r] = "comparing" =>
                 /\ e[Len(e)] = "compare"
                 /\ Staged(id_image_path[r], r)
                 /\ Staged(selfie_image_path[r], r)
           /\ Done(r) => e[Len(e)] = "respond"

C10_Witness ==
    \E r, q \in Requests :
       /\ r # q
       /\ pc[q] = "finally"
       /\ Done(r)
       /\ events[r] = << "staged", "staged", "compare", "cleanup", "respond" >>

====
